---- MODULE Spec2Model ----
(***************************************************************************)
(* Model of the cursor-cli-heavy orchestration engine (src/ccheavy.py,     *)
(* src/main.py): planning call with one retry, fan-out of the worker       *)
(* tasks over a thread pool, barrier, synthesis call, and the handling of  *)
(* the disposable run directories.                                         *)
(*                                                                         *)
(* Abstractions.  File contents are classes of text: "none" (no file),     *)
(* "blank" (empty or whitespace only: strip() leaves nothing), "text"      *)
(* (strip() leaves something) and "garbled" (bytes the default text        *)
(* decoding rejects, so that read() raises an error that is not            *)
(* FileNotFoundError).  A planning response is the record of the tagged    *)
(* blocks it carries.  The external capability is a nondeterministic       *)
(* choice of exit status and captured output.  extract_block is modelled   *)
(* twice: on the classes above, where the run uses it, and on sequences   *)
(* of characters (ExtractBlock), run on its own by SpecExtract.            *)
(***************************************************************************)
EXTENDS Integers, Sequences, FiniteSets, TLC

max_assistants == 8

default_parallel_agents == 4

fallback_parallel_agents == 4

\* Largest in-range assistant_count a planning response carries in the model.
MaxPlanCount == 3

\* Longest text and longest tag handed to extract_block in the model.
MaxTextLen == 4

MaxTagLen == 2

Indices == 1 .. max_assistants

(***************************************************************************)
(* Planning responses                                                      *)
(***************************************************************************)
\* assistant_count as found in the JSON object: <<tag, n>>.
\*   "missing": key absent (data.get default 0);  "int": the integer n;
\*   "float": the fractional number n + 1/2;
\*   "bad": a value int() rejects (null, "abc", a list).
CountValues ==
  {<<"missing", 0>>, <<"bad", 0>>, <<"float", MaxPlanCount>>}
    \cup {<<"int", n>> : n \in (0 .. MaxPlanCount) \cup {max_assistants + 1}}

\* assistant_focuses as found in the JSON object; keys are the indices that
\* carry a non-empty text value.
FocusValues ==
  { [kind |-> "missing", keys |-> {}],
    [kind |-> "dict", keys |-> 1 .. MaxPlanCount],
    [kind |-> "dict", keys |-> {max_assistants + 1}] }

NoJson == [kind |-> "absent", count |-> <<"missing", 0>>,
           focuses |-> [kind |-> "missing", keys |-> {}]]

PlanJsonValues ==
  { NoJson,
    [NoJson EXCEPT !.kind = "unparseable"],
    [NoJson EXCEPT !.kind = "notobject"] }
    \cup [kind : {"object"}, count : CountValues, focuses : FocusValues]

\* A response is the exit status of the call and the tagged blocks of its
\* output: the PLAN_JSON block, the SYNTH_PROMPT block, and whether it also
\* carries the blocks of a full session transcript (RA_<n> and FINAL).
Replies ==
  [ok : BOOLEAN, plan_json : PlanJsonValues, synth : {"absent", "blank", "text"},
   transcript : BOOLEAN]

NoReply == [ok |-> FALSE, plan_json |-> NoJson, synth |-> "absent",
            transcript |-> FALSE]

\* The RA_<n> blocks of a transcript: the first and the last index.
TranscriptRa == {1, max_assistants}

(***************************************************************************)
(* State                                                                   *)
(***************************************************************************)
VARIABLES
  pc,                \* position of the main thread
  exitStatus,        \* process exit status: "running" | "zero" | "nonzero"
  working_dir_abs,   \* "" when unset, else the resolved working directory
  parallel_agents,   \* Session: assistant count
  assistant_focuses, \* Session: focus map, index -> "custom" | "canned"
  synthesis_prompt,  \* Session: "" or the extracted prompt
  reply,             \* planner capability call that returned, not yet handled
  planDir,           \* planner scratch directory: "none" | "live" | "removed"
  futures,           \* indices submitted to the executor, in order
  wpc,               \* per worker position
  calls,             \* per worker capability invocations
  content,           \* per worker: read-back of the first attempt, stripped
  success,           \* per worker: success as tested at line 313
  findings,          \* assistants/ra-i-findings file
  trailer,           \* per worker: failure annotation appended
  wdir,              \* per worker scratch directory
  finalFile,         \* final-analysis file: "none" | "planner" | "synthesis"
  synthCalls,        \* synthesis capability invocations so far
  synthDir,          \* synthesis scratch directory
  synthInput,        \* lines of synthesis-input.txt, <<>> before it is written
  synthResult,       \* what the synthesis call returned: "none" | "ok" | "failed"
  epc,               \* extract_block call: "idle" | "call" | "returned"
  payload,           \* a text, as a sequence of characters
  start_tag,         \* extract_block argument
  end_tag,           \* extract_block argument
  document,          \* extract_block argument `content`
  extracted          \* what extract_block returned

vars == <<pc, exitStatus, working_dir_abs, parallel_agents, assistant_focuses,
          synthesis_prompt, reply, planDir, futures, wpc, calls,
          content, success, findings, trailer, wdir, finalFile, synthCalls,
          synthDir, synthInput, synthResult, epc, payload, start_tag,
          end_tag, document, extracted>>

sessionVars == <<parallel_agents, assistant_focuses, synthesis_prompt>>
workerVars == <<futures, wpc, calls, content, success, trailer, wdir>>
synthVars == <<synthCalls, synthDir, synthInput, synthResult>>
extractVars == <<epc, payload, start_tag, end_tag, document, extracted>>

(***************************************************************************)
(* Text helpers                                                            *)
(***************************************************************************)
\* extract_block on a tagged block of the response: "" when the tags do not
\* match ("absent") or when the stripped payload is empty ("blank"), else
\* the stripped payload.
extract_block(block) == IF block = "text" THEN "prompt" ELSE ""

(***************************************************************************)
(* extract_block on strings.  A string is a sequence of characters; the    *)
(* pattern is re.escape(start_tag) (.*?) re.escape(end_tag), searched with  *)
(* re.DOTALL, so both tags are literals and the group takes any character.  *)
(***************************************************************************)
Alphabet == {"a", "b", " "}

Whitespace == {" "}

TagAlphabet == {"a", "b"}

SeqsUpTo(S, n) == UNION {[1 .. k -> S] : k \in 0 .. n}

Texts == SeqsUpTo(Alphabet, MaxTextLen)

Tags == SeqsUpTo(TagAlphabet, MaxTagLen) \ {<<>>}

Min(S) == CHOOSE m \in S : \A n \in S : m <= n

Max(S) == CHOOSE m \in S : \A n \in S : n <= m

\* The literal t is found in s at position i.
OccursAt(s, t, i) ==
  /\ 1 <= i
  /\ i + Len(t) - 1 <= Len(s)
  /\ SubSeq(s, i, i + Len(t) - 1) = t

\* The ways the pattern matches: start_tag at i, any characters, end_tag at j.
Matches(s, st, et) ==
  {m \in (1 .. Len(s)) \X (1 .. Len(s)) :
     /\ OccursAt(s, st, m[1])
     /\ m[1] + Len(st) <= m[2]
     /\ OccursAt(s, et, m[2])}

\* Variant of StripText: str.lstrip(), the trailing whitespace stays.
StripTextLeading(s) ==
  LET keep == {k \in 1 .. Len(s) : s[k] \notin Whitespace}
  IN IF keep = {} THEN <<>> ELSE SubSeq(s, Min(keep), Len(s))

\* str.strip()
StripText(s) ==
  LET keep == {k \in 1 .. Len(s) : s[k] \notin Whitespace}
  IN IF keep = {} THEN <<>> ELSE SubSeq(s, Min(keep), Max(keep))

\* Variant of ExtractBlock: the greedy group (.*), which runs to the last
\* end_tag.
ExtractBlockGreedy(s, st, et) ==
  LET m == Matches(s, st, et)
  IN IF m = {}
     THEN <<>>
     ELSE LET i == Min({p[1] : p \in m})
              j == Max({p[2] : p \in {q \in m : q[1] = i}})
          IN StripText(SubSeq(s, i + Len(st), j - 1))

\* re.search takes the leftmost position where the pattern matches, and the
\* non-greedy group (.*?) the shortest text there; no match gives "".
ExtractBlock(s, st, et) ==
  LET m == Matches(s, st, et)
  IN IF m = {}
     THEN <<>>
     ELSE LET i == Min({p[1] : p \in m})
              j == Min({p[2] : p \in {q \in m : q[1] = i}})
          IN StripText(SubSeq(s, i + Len(st), j - 1))

(***************************************************************************)
(* parse_session_output                                                    *)
(***************************************************************************)
\* int(data.get("assistant_count", 0)): int() of a fractional number
\* truncates it toward zero.
CoerceCount(c) ==
  [raised |-> c[1] = "bad",
   val |-> IF c[1] \in {"int", "float"} THEN c[2] ELSE 0]

CountInRangeFromOne(count) == 1 <= count /\ count <= max_assistants

CountInRange(count) == 2 <= count /\ count <= max_assistants

\* What the try block raises before it assigns anything: json.loads on
\* unparseable text, data.get on a value that is no object, int() on a value
\* it cannot coerce.
JsonRaises(j) ==
  \/ j.kind \in {"unparseable", "notobject"}
  \/ j.kind = "object" /\ CoerceCount(j.count).raised

EmptyFocuses == [i \in {} |-> "custom"]

\* parsed_focuses: entries whose index is outside 1..max_assistants are skipped.
ParseFocuses(f) ==
  IF f.kind \in {"dict", "list"}
  THEN [i \in {k \in f.keys : 1 <= k /\ k <= max_assistants} |-> "custom"]
  ELSE EmptyFocuses

ParsedAgents(pa, j) ==
  IF j.kind = "object" /\ ~JsonRaises(j) /\ CountInRange(CoerceCount(j.count).val)
  THEN CoerceCount(j.count).val
  ELSE pa

ParsedFocuses(af, j) ==
  IF j.kind = "object" /\ ~JsonRaises(j) /\ ParseFocuses(j.focuses) # EmptyFocuses
  THEN ParseFocuses(j.focuses)
  ELSE af

\* The SYNTH_PROMPT block is extracted inside the same try block, after the
\* JSON has been handled.
ParsedPrompt(sp, r) ==
  IF ~JsonRaises(r.plan_json) /\ extract_block(r.synth) # ""
  THEN extract_block(r.synth)
  ELSE sp

\* Lines 451-459: every non-empty RA_<i> block, i in 1..max_assistants.
ParsedFindings(fd, r) ==
  [i \in Indices |->
     IF r.transcript /\ i \in TranscriptRa THEN "planner" ELSE fd[i]]

\* Lines 461-465: a non-empty FINAL block.
ParsedFinal(ff, r) == IF r.transcript THEN "planner" ELSE ff

(***************************************************************************)
(* run: fallbacks after planning                                           *)
(***************************************************************************)
FallbackAgents(pa) ==
  IF CountInRange(pa) THEN pa ELSE fallback_parallel_agents

FallbackFocuses(af, pa) ==
  IF af = EmptyFocuses THEN [i \in 1 .. pa |-> "canned"] ELSE af

\* shutil.rmtree in the cleanup code: only a directory this step created.
Cleaned(dir) == IF working_dir_abs = "" /\ dir = "live" THEN "removed" ELSE dir

\* tempfile.mkdtemp() unless a working directory is set.
Acquired == IF working_dir_abs = "" THEN "live" ELSE "none"

(***************************************************************************)
(* Initial state: after CCHeavy.__init__ and setup_directories             *)
(***************************************************************************)
InitRun ==
  /\ pc = "start"
  /\ exitStatus = "running"
  /\ working_dir_abs \in {"", "workdir"}
  /\ parallel_agents = default_parallel_agents
  /\ assistant_focuses = EmptyFocuses
  /\ synthesis_prompt = ""
  /\ reply = NoReply
  /\ planDir = "none"
  /\ futures = <<>>
  /\ wpc = [i \in Indices |-> "pending"]
  /\ calls = [i \in Indices |-> 0]
  /\ content = [i \in Indices |-> "unread"]
  /\ success = [i \in Indices |-> FALSE]
  /\ findings = [i \in Indices |-> "none"]
  /\ trailer = [i \in Indices |-> FALSE]
  /\ wdir = [i \in Indices |-> "none"]
  /\ finalFile = "none"
  /\ synthCalls = 0
  /\ synthDir = "none"
  /\ synthInput = <<>>
  /\ synthResult = "none"

\* No extract_block call is being looked at.
Init ==
  /\ InitRun
  /\ epc = "idle"
  /\ payload = <<>>
  /\ start_tag = <<>>
  /\ end_tag = <<>>
  /\ document = <<>>
  /\ extracted = <<>>

(***************************************************************************)
(* run: capability check, then the planner's first call                    *)
(***************************************************************************)
StartRun ==
  /\ pc = "start"
  /\ \E available \in BOOLEAN :
       IF available
       THEN /\ pc' = "plan1"
            /\ planDir' = Acquired
            /\ UNCHANGED exitStatus
       ELSE /\ pc' = "unavailable"
            /\ exitStatus' = "zero"
            /\ UNCHANGED planDir
  /\ UNCHANGED <<working_dir_abs, extractVars, sessionVars, reply, workerVars, findings,
                 finalFile, synthVars>>

\* The planner's capability call returns.
PlanReturn ==
  /\ pc \in {"plan1", "plan2"}
  /\ \E r \in Replies : reply' = r
  /\ pc' = IF pc = "plan1" THEN "parse1" ELSE "parse2"
  /\ UNCHANGED <<exitStatus, working_dir_abs, extractVars, sessionVars, planDir,
                 workerVars, findings, finalFile, synthVars>>

\* line 546: the retry condition after the first parse.
RetryPlanning(sp) == sp = ""

\* Variant of PromptMissing: the hard stop never triggers.
PromptMissingNever(sp) == FALSE

\* line 556: the hard stop.
PromptMissing(sp) == sp = ""

\* Planner returns normally: finally-cleanup, run()'s fallbacks, and the
\* start of run_parallel_research up to the submit loop.
FinishPlanning(pa, af) ==
  /\ parallel_agents' = FallbackAgents(pa)
  /\ assistant_focuses' = FallbackFocuses(af, FallbackAgents(pa))
  /\ planDir' = Cleaned(planDir)
  /\ pc' = "dispatch"
  /\ UNCHANGED exitStatus

\* RuntimeError out of the planner: finally-cleanup, main() exits with 1.
FailPlanning(pa, af) ==
  /\ parallel_agents' = pa
  /\ assistant_focuses' = af
  /\ planDir' = Cleaned(planDir)
  /\ pc' = "fatal"
  /\ exitStatus' = "nonzero"

PlanHandleFirst ==
  /\ pc = "parse1"
  /\ reply' = NoReply
  /\ IF reply.ok
     THEN /\ synthesis_prompt' = ParsedPrompt(synthesis_prompt, reply)
          /\ finalFile' = ParsedFinal(finalFile, reply)
          /\ findings' = ParsedFindings(findings, reply)
          /\ IF RetryPlanning(ParsedPrompt(synthesis_prompt, reply))
             THEN /\ parallel_agents' = ParsedAgents(parallel_agents, reply.plan_json)
                  /\ assistant_focuses' =
                       ParsedFocuses(assistant_focuses, reply.plan_json)
                  /\ pc' = "plan2"
                  /\ UNCHANGED <<exitStatus, planDir>>
             ELSE FinishPlanning(ParsedAgents(parallel_agents, reply.plan_json),
                                 ParsedFocuses(assistant_focuses, reply.plan_json))
     ELSE /\ FinishPlanning(parallel_agents, assistant_focuses)
          /\ UNCHANGED <<synthesis_prompt, finalFile, findings>>
  /\ UNCHANGED <<working_dir_abs, extractVars, workerVars, synthVars>>

PlanHandleRetry ==
  /\ pc = "parse2"
  /\ reply' = NoReply
  /\ LET parsed == reply.ok
         sp == IF parsed THEN ParsedPrompt(synthesis_prompt, reply)
               ELSE synthesis_prompt
         pa == IF parsed THEN ParsedAgents(parallel_agents, reply.plan_json)
               ELSE parallel_agents
         af == IF parsed THEN ParsedFocuses(assistant_focuses, reply.plan_json)
               ELSE assistant_focuses
     IN /\ synthesis_prompt' = sp
        /\ finalFile' = IF parsed THEN ParsedFinal(finalFile, reply) ELSE finalFile
        /\ findings' = IF parsed THEN ParsedFindings(findings, reply) ELSE findings
        /\ IF PromptMissing(sp) THEN FailPlanning(pa, af) ELSE FinishPlanning(pa, af)
  /\ UNCHANGED <<working_dir_abs, extractVars, workerVars, synthVars>>

(***************************************************************************)
(* run_parallel_research: the submit loop                                  *)
(***************************************************************************)
\* Variant of WorkerRange: range(1, self.parallel_agents), one index short.
WorkerRangeShort(n) == 1 .. (n - 1)

\* range(1, self.parallel_agents + 1)
WorkerRange(n) == 1 .. n

\* Variant of Submit: the default focus of an index that has none is seeded
\* in the submit loop, not by run() before it.
SubmitSeedingFocus ==
  /\ pc = "dispatch"
  /\ LET i == Len(futures) + 1
     IN /\ i \in WorkerRange(parallel_agents)
        /\ futures' = Append(futures, i)
        /\ wpc' = [wpc EXCEPT ![i] = "queued"]
        /\ pc' = IF i + 1 \in WorkerRange(parallel_agents) THEN "dispatch" ELSE "wait"
        /\ assistant_focuses' =
             [k \in DOMAIN assistant_focuses \cup {i} |->
                IF k \in DOMAIN assistant_focuses
                THEN assistant_focuses[k] ELSE "canned"]
  /\ UNCHANGED <<exitStatus, working_dir_abs, extractVars, parallel_agents,
                 synthesis_prompt, reply, planDir, calls, content, success,
                 findings, trailer, wdir, finalFile, synthVars>>

Submit ==
  /\ pc = "dispatch"
  /\ LET i == Len(futures) + 1
     IN /\ i \in WorkerRange(parallel_agents)
        /\ futures' = Append(futures, i)
        /\ wpc' = [wpc EXCEPT ![i] = "queued"]
        /\ pc' = IF i + 1 \in WorkerRange(parallel_agents) THEN "dispatch" ELSE "wait"
  /\ UNCHANGED <<exitStatus, working_dir_abs, extractVars, sessionVars, reply, planDir, calls, content, success, findings, trailer, wdir,
                 finalFile, synthVars>>

(***************************************************************************)
(* _run_assistant_with_retry, one pool thread per submitted index          *)
(***************************************************************************)
\* What one capability invocation leaves behind: exit status and the class
\* of the captured output.  run_cursor_agent's own except branch (the
\* process could not be started) is the outcome <<FALSE, "text">>.
Outcomes == [ok : BOOLEAN, out : {"blank", "text", "garbled"}]

\* open(output_file).read() raises an error other than FileNotFoundError.
ReadRaises(file) == file = "garbled"

\* Variant of NeedsRetry: the empty read-back is not acted upon.
NeedsRetryNever(stripped) == FALSE

\* line 304: if not content
NeedsRetry(stripped) == stripped = "blank"

\* line 313: if not success
NeedsTrailer(ok) == ~ok

\* The pool thread picks the task up: run directory, then the first attempt
\* (run_cursor_agent opens the output file for writing before it starts the
\* process).
TaskStart(i) ==
  /\ wpc[i] = "queued"
  /\ wdir' = [wdir EXCEPT ![i] = Acquired]
  /\ calls' = [calls EXCEPT ![i] = 1]
  /\ findings' = [findings EXCEPT ![i] = "blank"]
  /\ wpc' = [wpc EXCEPT ![i] = "run1"]
  /\ UNCHANGED <<pc, exitStatus, working_dir_abs, extractVars, sessionVars, reply, planDir, futures, content, success, trailer, finalFile, synthVars>>

\* Lines 313-322: annotation, then removal of the run directory.
TaskFinish(i, o) ==
  /\ success' = [success EXCEPT ![i] = o.ok]
  /\ findings' = [findings EXCEPT ![i] = o.out]
  /\ trailer' = [trailer EXCEPT ![i] = NeedsTrailer(o.ok)]
  /\ wdir' = [wdir EXCEPT ![i] = Cleaned(wdir[i])]
  /\ wpc' = [wpc EXCEPT ![i] = "done"]

\* The first attempt returns; the output is read back.
TaskReturnFirst(i) ==
  /\ wpc[i] = "run1"
  /\ \E o \in Outcomes :
       IF ReadRaises(o.out)
       THEN /\ wpc' = [wpc EXCEPT ![i] = "raised"]
            /\ findings' = [findings EXCEPT ![i] = o.out]
            /\ success' = [success EXCEPT ![i] = o.ok]
            /\ UNCHANGED <<calls, content, trailer, wdir>>
       ELSE /\ content' = [content EXCEPT ![i] = o.out]
            /\ IF NeedsRetry(o.out)
               THEN /\ calls' = [calls EXCEPT ![i] = calls[i] + 1]
                    /\ findings' = [findings EXCEPT ![i] = "blank"]
                    /\ wpc' = [wpc EXCEPT ![i] = "run2"]
                    /\ UNCHANGED <<success, trailer, wdir>>
               ELSE /\ TaskFinish(i, o)
                    /\ UNCHANGED calls
  /\ UNCHANGED <<pc, exitStatus, working_dir_abs, extractVars, sessionVars, reply, planDir, futures, finalFile, synthVars>>

\* Variant of TaskReturnRetry: an empty output of the retry is retried again.
TaskReturnRetryAgain(i) ==
  /\ wpc[i] = "run2"
  /\ \E o \in Outcomes :
       IF NeedsRetry(o.out) /\ calls[i] < 3
       THEN /\ calls' = [calls EXCEPT ![i] = calls[i] + 1]
            /\ UNCHANGED <<wpc, success, findings, trailer, wdir>>
       ELSE /\ TaskFinish(i, o)
            /\ UNCHANGED calls
  /\ UNCHANGED <<pc, exitStatus, working_dir_abs, extractVars, sessionVars, reply, planDir, futures, content, finalFile, synthVars>>

\* The retry returns; its output is not read back.
TaskReturnRetry(i) ==
  /\ wpc[i] = "run2"
  /\ \E o \in Outcomes : TaskFinish(i, o)
  /\ UNCHANGED <<pc, exitStatus, working_dir_abs, extractVars, sessionVars, reply, planDir, futures, calls, content, finalFile, synthVars>>

Finished(i) == wpc[i] \in {"done", "raised"}

Submitted == {futures[k] : k \in 1 .. Len(futures)}

\* Variant of AllCompleted: the pool reports completion on the first result.
FirstCompleted == \E i \in Submitted : Finished(i)

\* as_completed over every future, then the executor's shutdown(wait=True).
AllCompleted == \A i \in Submitted : Finished(i)

(***************************************************************************)
(* _run_synthesis                                                          *)
(***************************************************************************)
\* rf.read() on a findings file raises an error other than FileNotFoundError.
SynthInputRaises ==
  \E i \in WorkerRange(parallel_agents) : ReadRaises(findings[i])

\* One line of synthesis-input.txt: the framing ("header"), a BEGIN RA-idx
\* marker, the text of a section, or an END RA-idx marker.
Line(kind, idx, body) == [kind |-> kind, idx |-> idx, body |-> body]

\* The framing: the synthesis prompt when there is one, else the default.
SynthHeader(prompt) ==
  Line("header", 0, IF prompt # "" THEN prompt ELSE "default")

\* What a section holds: the findings file as read, or the placeholder when
\* the file does not exist.
SectionBody(file) == IF file = "none" THEN "placeholder" ELSE file

\* The loop over range(i, last + 1): per index the BEGIN marker, the file or
\* the placeholder, the END marker.  A read that raises ends the loop with
\* the BEGIN marker of that index as the last line written.
RECURSIVE WriteSections(_, _, _)
WriteSections(files, i, last) ==
  IF i > last
  THEN <<>>
  ELSE IF ReadRaises(files[i])
  THEN <<Line("begin", i, "")>>
  ELSE <<Line("begin", i, ""), Line("body", i, SectionBody(files[i])),
         Line("end", i, "")>>
         \o WriteSections(files, i + 1, last)

\* The barrier is passed; the synthesis input is built and the one
\* generation call is issued (its output file is opened for writing first).
PoolComplete ==
  /\ pc = "wait"
  /\ AllCompleted
  /\ synthInput' = <<SynthHeader(synthesis_prompt)>>
                      \o WriteSections(findings, 1, parallel_agents)
  /\ IF SynthInputRaises
     THEN /\ pc' = "crashed"
          /\ exitStatus' = "nonzero"
          /\ UNCHANGED <<finalFile, synthCalls, synthDir, synthResult>>
     ELSE /\ pc' = "synth"
          /\ synthDir' = Acquired
          /\ synthCalls' = synthCalls + 1
          /\ finalFile' = "synthesis"
          /\ UNCHANGED <<exitStatus, synthResult>>
  /\ UNCHANGED <<working_dir_abs, extractVars, sessionVars, reply, planDir,
                 workerVars, findings>>

\* The synthesis call returns (its status is not looked at); cleanup, and
\* run() returns normally.
SynthReturn ==
  /\ pc = "synth"
  /\ \E ok \in BOOLEAN : synthResult' = IF ok THEN "ok" ELSE "failed"
  /\ synthDir' = Cleaned(synthDir)
  /\ pc' = "done"
  /\ exitStatus' = "zero"
  /\ UNCHANGED <<working_dir_abs, extractVars, sessionVars, reply, planDir,
                 workerVars, findings, finalFile, synthCalls, synthInput>>

(***************************************************************************)
(* KeyboardInterrupt in the main thread                                    *)
(***************************************************************************)
\* Inside run_planning_orchestrator's try block: the finally clause runs.
InterruptPlanning ==
  /\ pc \in {"plan1", "parse1", "plan2", "parse2"}
  /\ planDir' = Cleaned(planDir)
  /\ reply' = NoReply
  /\ pc' = "cancelled"
  /\ exitStatus' = "nonzero"
  /\ UNCHANGED <<working_dir_abs, extractVars, sessionVars, workerVars, findings,
                 finalFile, synthVars>>

\* Inside the executor's with block: __exit__ waits for the submitted tasks.
InterruptPool ==
  /\ pc \in {"dispatch", "wait"}
  /\ pc' = "shutdown"
  /\ UNCHANGED <<exitStatus, working_dir_abs, extractVars, sessionVars, reply, planDir, workerVars, findings, finalFile, synthVars>>

ExecutorShutdown ==
  /\ pc = "shutdown"
  /\ AllCompleted
  /\ pc' = "cancelled"
  /\ exitStatus' = "nonzero"
  /\ UNCHANGED <<working_dir_abs, extractVars, sessionVars, reply, planDir,
                 workerVars, findings, finalFile, synthVars>>

\* Inside _run_synthesis, while the generation call is running: no handler
\* and no finally clause between the call and main().
InterruptSynthesis ==
  /\ pc = "synth"
  /\ pc' = "cancelled"
  /\ exitStatus' = "nonzero"
  /\ UNCHANGED <<working_dir_abs, extractVars, sessionVars, reply, planDir,
                 workerVars, findings, finalFile, synthVars>>

(***************************************************************************)
(* Specification                                                           *)
(***************************************************************************)
Next ==
  \/ StartRun
  \/ PlanReturn
  \/ PlanHandleFirst
  \/ PlanHandleRetry
  \/ Submit
  \/ \E i \in Indices : TaskStart(i)
  \/ \E i \in Indices : TaskReturnFirst(i)
  \/ \E i \in Indices : TaskReturnRetry(i)
  \/ PoolComplete
  \/ SynthReturn
  \/ InterruptPlanning
  \/ InterruptPool
  \/ ExecutorShutdown
  \/ InterruptSynthesis

Spec == Init /\ [][Next]_vars

(***************************************************************************)
(* extract_block called on its own: any text, bare or between the tags,    *)
(* and any pair of tags.                                                   *)
(***************************************************************************)
InitExtract ==
  /\ InitRun
  /\ epc = "call"
  /\ payload \in Texts
  /\ start_tag \in Tags
  /\ end_tag \in Tags
  /\ document \in {payload, start_tag \o payload \o end_tag}
  /\ extracted = <<>>

ExtractCall ==
  /\ epc = "call"
  /\ extracted' = ExtractBlock(document, start_tag, end_tag)
  /\ epc' = "returned"
  /\ UNCHANGED <<pc, exitStatus, working_dir_abs, sessionVars, reply, planDir,
                 workerVars, findings, finalFile, synthVars, payload,
                 start_tag, end_tag, document>>

NextExtract == ExtractCall

SpecExtract == InitExtract /\ [][NextExtract]_vars

TypeOK ==
  /\ pc \in {"start", "unavailable", "plan1", "parse1", "plan2", "parse2",
             "dispatch", "wait", "shutdown", "synth", "done", "fatal",
             "crashed", "cancelled"}
  /\ exitStatus \in {"running", "zero", "nonzero"}
  /\ parallel_agents \in Int
  /\ synthesis_prompt \in {"", "prompt"}
  /\ synthCalls \in 0 .. 1
  /\ synthResult \in {"none", "ok", "failed"}
  /\ epc \in {"idle", "call", "returned"}
  /\ \A k \in 1 .. Len(synthInput) :
       /\ synthInput[k].kind \in {"header", "begin", "body", "end"}
       /\ synthInput[k].idx \in 0 .. max_assistants

(***************************************************************************)
(* Properties                                                              *)
(***************************************************************************)
\* The indices of the decided assistant count.
Decided == 1 .. parallel_agents

\* C1: the synthesis call is issued (or its input is being built) only when
\* every one of the N workers has finished; none is pending or running.
BarrierBeforeSynthesis ==
  (synthCalls > 0 \/ pc \in {"synth", "done", "crashed"})
    => \A i \in Decided : Finished(i)

C1Witness ==
  /\ pc = "synth"
  /\ synthCalls = 1
  /\ \E i, j \in Decided : calls[i] = 2 /\ success[i] /\ calls[j] = 1 /\ ~success[j]

\* C2: the planner never returns normally with the synthesis prompt unset,
\* so no worker is dispatched while the prompt is empty.
PlannerAlwaysLeavesPrompt ==
  (pc \in {"dispatch", "wait", "shutdown", "synth", "done", "crashed"}
     \/ Submitted # {})
    => synthesis_prompt # ""

\* C3: when the retry also leaves the synthesis prompt unextracted, the run
\* ends with a non-zero exit status, and no worker task and no synthesis call
\* is dispatched, then or later.
NothingDispatched ==
  /\ Submitted = {}
  /\ \A i \in Indices : wpc[i] = "pending" /\ calls[i] = 0
  /\ synthCalls = 0

FatalWithoutPrompt ==
  [][ /\ pc = "fatal" => exitStatus = "nonzero" /\ NothingDispatched
      /\ (pc = "parse2" /\ extract_block(reply.synth) = "")
           => /\ pc' \in {"fatal", "cancelled"}
              /\ exitStatus' = "nonzero"
              /\ NothingDispatched'
              /\ synthesis_prompt' = "" ]_vars

C3Witness == pc = "fatal" /\ exitStatus = "nonzero" /\ synthesis_prompt = ""

\* C4: a worker whose output is still empty or whitespace-only after the
\* retry ends Failed with the failure annotation, whatever the retry's exit
\* status.
EmptyAfterRetryIsFailure ==
  \A i \in Indices :
    (wpc[i] = "done" /\ calls[i] = 2 /\ findings[i] = "blank")
      => ~success[i] /\ trailer[i]

\* C5: a worker invokes the capability at most twice, and twice exactly when
\* the stripped read-back of the first attempt is empty.
AtMostOneRetry ==
  \A i \in Indices :
    /\ calls[i] \in 0 .. 2
    /\ calls[i] = 2 <=> content[i] = "blank"
    /\ wpc[i] \in {"run1", "raised"} => calls[i] = 1
    /\ wpc[i] = "run2" => calls[i] = 2
    /\ wpc[i] = "done" => calls[i] \in 1 .. 2

C5Witness ==
  \E i \in Indices :
    wpc[i] = "done" /\ calls[i] = 2 /\ findings[i] = "blank"

\* C6: parsing a response whose PLAN_JSON block is malformed has the effect
\* of parsing the same response without the block: count and focus map keep
\* their values, the SYNTH_PROMPT block of the response is applied, and the
\* run fails only if that response carries no prompt either.
MalformedJsonLikeAbsent ==
  [][ (/\ pc \in {"parse1", "parse2"}
       /\ reply.ok
       /\ JsonRaises(reply.plan_json)
       /\ pc' # "cancelled")
        => LET bare == [reply EXCEPT !.plan_json = NoJson]
           IN /\ synthesis_prompt' = ParsedPrompt(synthesis_prompt, bare)
              /\ pc' = "fatal" => ParsedPrompt(synthesis_prompt, bare) = ""
              /\ parallel_agents' \in
                   {parallel_agents, FallbackAgents(parallel_agents)} ]_vars

\* C7: a worker's scratch directory is gone once the task has completed,
\* on every exit path.
ScratchRemovedOnCompletion ==
  \A i \in Indices : Finished(i) => wdir[i] # "live"

\* C8: when the run ends cancelled, no scratch directory of the planner, of
\* the synthesis step or of a worker is left.  (A worker task that raised
\* is C7's case and is left out here, so that a violation is one of the
\* cancellation path itself.)
ScratchRemovedOnCancel ==
  pc = "cancelled"
    => /\ planDir # "live"
       /\ synthDir # "live"
       /\ \A i \in Indices : wpc[i] # "raised" => wdir[i] # "live"

\* C9: the final-analysis file does not exist before all N workers have
\* finished and the synthesis step has started.
FinalOnlyAfterBarrier ==
  finalFile # "none"
    => /\ synthCalls > 0
       /\ \A i \in Decided : Finished(i)

\* C10: exactly the indices 1..N are dispatched, each once, none other, and
\* each has one terminal result when the pool reports completion; a finished
\* task does not move again.
ExactlyNTasksState ==
  /\ \A k \in 1 .. Len(futures) : futures[k] = k
  /\ Submitted \subseteq Decided
  /\ \A i \in Indices \ Submitted : wpc[i] = "pending" /\ calls[i] = 0
  /\ \A i \in Submitted : wpc[i] # "pending"
  /\ pc \in {"wait", "synth", "done", "crashed"} => Submitted = Decided
  /\ pc \in {"synth", "done", "crashed"} => \A i \in Decided : Finished(i)

\* (The state part is asked of the state each step leads to; the initial
\* state has no future and no task.)
ExactlyNTasks ==
  [][ /\ ExactlyNTasksState'
      /\ \A i \in Indices :
           Finished(i) => /\ wpc'[i] = wpc[i]
                          /\ calls'[i] = calls[i]
                          /\ success'[i] = success[i] ]_vars

C10Witness ==
  /\ pc = "done"
  /\ parallel_agents = 3
  /\ Submitted = 1 .. 3
  /\ \E i \in 1 .. 3 : calls[i] = 2

\* C11: when a run has completed, the findings files that exist are exactly
\* those of the indices 1..N; no index above N has one.
FindingsExactlyDecided ==
  pc = "done"
    => \A i \in Indices : findings[i] # "none" <=> i \in Decided

\* C12: past the barrier every worker has reached a terminal state whatever
\* the others did, the synthesis call has been issued, and the run has not
\* ended with a non-zero exit status.
WorkerFailureIsolated ==
  (pc \in {"synth", "done", "crashed"}
     /\ \E i \in Decided : wpc[i] = "raised" \/ ~success[i])
    => /\ \A i \in Decided : Finished(i)
       /\ synthCalls = 1
       /\ exitStatus # "nonzero"

\* C13: once the synthesis input has been built it holds, after the framing,
\* exactly N sections, for the indices 1..N in ascending order, each made of
\* the BEGIN marker of its index, a text and the END marker of its index;
\* the text is the placeholder when the findings file does not exist.
SectionAt(i) ==
  /\ synthInput[3 * i - 1] = Line("begin", i, "")
  /\ synthInput[3 * i].kind = "body"
  /\ synthInput[3 * i].idx = i
  /\ synthInput[3 * i].body = "placeholder" <=> findings[i] = "none"
  /\ synthInput[3 * i + 1] = Line("end", i, "")

ExactlyNSections ==
  pc \in {"synth", "done", "crashed"}
    => /\ Len(synthInput) = 1 + 3 * parallel_agents
       /\ synthInput[1].kind = "header"
       /\ \A i \in Decided : SectionAt(i)

\* C14: parsing a response whose assistant_count is not an integer between
\* 2 and max_assistants (0, 1, 9, a fractional number, a value that is no
\* number, or no value) leaves the assistant count as it was.
IsIntegerInRange(c) == c[1] = "int" /\ 2 <= c[2] /\ c[2] <= max_assistants

InvalidCountKeepsCount ==
  [][ (/\ pc \in {"parse1", "parse2"}
       /\ reply.ok
       /\ reply.plan_json.kind = "object"
       /\ ~IsIntegerInRange(reply.plan_json.count)
       /\ pc' # "cancelled")
        => parallel_agents' = parallel_agents ]_vars

\* C15: in every reachable state the assistant count is an integer between
\* 2 and max_assistants.
CountAlwaysInRange ==
  parallel_agents \in 2 .. max_assistants

C15Witness ==
  /\ pc = "done"
  /\ parallel_agents = 2
  /\ Submitted = 1 .. 2

\* C16: once workers are dispatched, every key of the focus map is an index
\* of the decided count.
FocusKeysWithinCount ==
  Submitted # {} => DOMAIN assistant_focuses \subseteq Decided

\* C17: when the capability is absent at startup the run ends with a
\* non-zero exit status and nothing was planned, dispatched or synthesised.
AbsentCapabilityIsFatal ==
  pc = "unavailable"
    => /\ exitStatus = "nonzero"
       /\ planDir = "none"
       /\ NothingDispatched

\* The text between the tags was handed to extract_block.
Wrapped == document = start_tag \o payload \o end_tag

\* t occurs somewhere in s.
Contains(s, t) == \E k \in 1 .. Len(s) : OccursAt(s, t, k)

RECURSIVE TrimLeft(_)
TrimLeft(s) ==
  IF s # <<>> /\ Head(s) \in Whitespace THEN TrimLeft(Tail(s)) ELSE s

RECURSIVE TrimRight(_)
TrimRight(s) ==
  IF s # <<>> /\ s[Len(s)] \in Whitespace
  THEN TrimRight(SubSeq(s, 1, Len(s) - 1))
  ELSE s

\* s without its leading and trailing whitespace.
Trimmed(s) == TrimRight(TrimLeft(s))

\* C18 as claimed: for a text x that contains neither tag, extracting from
\* start_tag + x + end_tag returns exactly x, whitespace included.
ExtractRoundTripsExactly ==
  (/\ epc = "returned"
   /\ Wrapped
   /\ ~Contains(payload, start_tag)
   /\ ~Contains(payload, end_tag))
    => extracted = payload

\* C18 as the code has it: for a text x that contains neither tag, and whose
\* end followed by the end tag does not spell the end tag early, extracting
\* from start_tag + x + end_tag returns x without its leading and trailing
\* whitespace; that is exactly x when x neither starts nor ends with
\* whitespace, the empty x included.
ExtractRoundTripsTrimmed ==
  (/\ epc = "returned"
   /\ Wrapped
   /\ ~Contains(payload, start_tag)
   /\ ~Contains(payload, end_tag)
   /\ \A k \in 1 .. Len(payload) : ~OccursAt(payload \o end_tag, end_tag, k))
    => /\ extracted = Trimmed(payload)
       /\ Trimmed(payload) = payload => extracted = payload

C18Witness ==
  /\ epc = "returned"
  /\ Wrapped
  /\ ~Contains(payload, start_tag)
  /\ ~Contains(payload, end_tag)
  /\ payload = <<" ", "a", " ">>
  /\ extracted = <<"a">>

\* C19: extract_block returns the trimmed text between the first occurrence
\* of the start tag and the first occurrence of the end tag after it, and
\* the empty string when the start tag does not occur or no end tag occurs
\* after its first occurrence.
FirstOccurrence(s, t, from) ==
  LET found == {k \in from .. Len(s) : OccursAt(s, t, k)}
  IN IF found = {} THEN 0 ELSE Min(found)

FirstSpan(s, st, et) ==
  LET i == FirstOccurrence(s, st, 1)
  IN IF i = 0
     THEN <<>>
     ELSE LET j == FirstOccurrence(s, et, i + Len(st))
          IN IF j = 0 THEN <<>> ELSE Trimmed(SubSeq(s, i + Len(st), j - 1))

ExtractIsFirstSpan ==
  epc = "returned" => extracted = FirstSpan(document, start_tag, end_tag)

\* Both tags occur twice and the first span is not empty.
C19Witness ==
  /\ epc = "returned"
  /\ document = <<"b", " ", "a", "b", "a", "b">>
  /\ start_tag = <<"b">>
  /\ end_tag = <<"b">>
  /\ extracted = <<"a">>

\* C20: a run that has reached _run_synthesis has issued exactly one
\* synthesis call, and when that call has failed the run has still ended
\* normally, with a zero exit status.
OneSynthesisCall ==
  /\ synthCalls <= 1
  /\ pc \in {"synth", "done", "crashed"} => synthCalls = 1
  /\ synthResult = "failed" => pc = "done" /\ exitStatus = "zero"

\* C21 as claimed: each of the three session fields is written once, so a
\* step that changes one of them starts from the value the field had at
\* construction; it is a step of the planner, and no worker has been
\* dispatched before or by it.
SessionWrittenOnce ==
  [][ /\ parallel_agents' # parallel_agents
        => parallel_agents = default_parallel_agents
      /\ assistant_focuses' # assistant_focuses
        => assistant_focuses = EmptyFocuses
      /\ synthesis_prompt' # synthesis_prompt => synthesis_prompt = ""
      /\ sessionVars' # sessionVars
        => pc \in {"parse1", "parse2"} /\ Submitted' = {} ]_vars

\* C21 as the code has it: the three session fields change only in the
\* steps that handle a planning response (the planner's parse of the first
\* and of the retried response, and the defaults run() fills in when the
\* planner returns), all before the first worker is dispatched; from the
\* first dispatch on none of them changes.
SessionWrittenBeforeDispatch ==
  [][ /\ sessionVars' # sessionVars
        => /\ pc \in {"parse1", "parse2"}
           /\ Submitted = {}
           /\ Submitted' = {}
      /\ (Submitted # {} \/ pc \in {"dispatch", "wait", "synth"})
        => sessionVars' = sessionVars ]_vars

C21Witness ==
  /\ pc = "done"
  /\ parallel_agents = 3
  /\ synthesis_prompt = "prompt"
  /\ \A i \in Decided : assistant_focuses[i] = "custom"

\* The state of a worker task in the terms of the specification's state
\* machine; "Error" is a task ended by an error it raised.
TaskState(i) ==
  CASE wpc[i] \in {"pending", "queued"} -> "Pending"
    [] wpc[i] = "run1" -> "Running1"
    [] wpc[i] = "run2" -> "Running2"
    [] wpc[i] = "raised" -> "Error"
    [] wpc[i] = "done" /\ success[i] -> "Success"
    [] wpc[i] = "done" /\ ~success[i] -> "Failed"

ClaimedEdges ==
  {<<"Pending", "Running1">>, <<"Running1", "Success">>,
   <<"Running1", "Running2">>, <<"Running2", "Success">>,
   <<"Running2", "Failed">>}

\* C22 as claimed: a task moves only along Pending -> Running(1) ->
\* {Success | Empty -> Running(2) -> {Success | Failed}}; no call follows
\* Success or Failed, and Failed is entered only from the second attempt.
TrajectoryAsClaimed ==
  [][ \A i \in Indices :
        /\ \/ TaskState(i)' = TaskState(i)
           \/ <<TaskState(i), TaskState(i)'>> \in ClaimedEdges
        /\ TaskState(i) \in {"Success", "Failed"} => calls'[i] = calls[i] ]_vars

\* C22 as the code has it: besides the claimed edges a task goes from the
\* first attempt to Failed (non-success status, output not empty) and to
\* Error (reading the output back raises).  The second attempt is entered
\* exactly when the first left an empty output; Success, Failed and Error
\* are terminal: the task does not move and makes no call.
\* (A task none of whose position, call count and result changes in a step
\* satisfies the conditions; it is passed over first.)
TrajectoryOfTask ==
  [][ \A i \in Indices :
        \/ wpc'[i] = wpc[i] /\ calls'[i] = calls[i] /\ success'[i] = success[i]
        \/ LET from == TaskState(i)
               to == TaskState(i)'
           IN /\ \/ to = from
                 \/ <<from, to>> \in
                      ClaimedEdges \cup {<<"Running1", "Failed">>,
                                         <<"Running1", "Error">>}
              /\ (from = "Running1" /\ to = "Running2")
                   => content'[i] = "blank"
              /\ (from = "Running1" /\ to \in {"Success", "Failed"})
                   => content'[i] = "text"
              /\ from \in {"Running2", "Success", "Failed", "Error"}
                   => calls'[i] = calls[i] ]_vars

C22Witness ==
  \E i, j \in Decided :
    /\ TaskState(i) = "Failed" /\ calls[i] = 1
    /\ TaskState(j) = "Failed" /\ calls[j] = 2

\* C23: a finished worker whose last capability invocation returned a
\* non-success status has the failure annotation at the end of its
\* findings file, and one whose last invocation succeeded has none.
TrailerIffLastCallFailed ==
  \A i \in Indices : Finished(i) => (trailer[i] <=> ~success[i])

\* C24: no dispatched worker ends in a state that is neither Success nor
\* Failed, and the run does not end, uncancelled, before the synthesis call
\* is issued; so that, every call returning, each worker reaches Success or
\* Failed, the barrier is passed and the synthesis call is issued.
WorkersAndRunReachTheirEnd ==
  /\ \A i \in Indices : TaskState(i) # "Error"
  /\ pc = "crashed" => synthCalls = 1

====
